---- MODULE Spec2Model ----
(***************************************************************************)
(* The sidebar index of the ink_lang reference documentation:              *)
(* target/doc/ink_lang/sidebar-items.js.  The file is one statement, a     *)
(* call of initSidebarItems with an object literal: category name ->       *)
(* list of [identifier, description] pairs.  The state machine below is    *)
(* the evaluation of that statement (Load) followed by the reads of the    *)
(* documentation viewer that received the table.                           *)
(***************************************************************************)
EXTENDS Integers, Sequences, FiniteSets, TLC

\* How many times the page (and with it the file) is loaded in one run.
MaxLoads == 2

(***************************************************************************)
(* The object literal of the file, category by category.                   *)
(***************************************************************************)

\* "attr": the entries of the category, in the order of the file.
AttrItems ==
    << <<"contract", "">> >>

\* "enum": the entries of the category, in the order of the file.
EnumItems ==
    << <<"DispatchError", "A dispatch error.">>,
       <<"DispatchMode", "The contract dispatch mode.">> >>

\* "struct": the entries of the category, in the order of the file.
StructItems ==
    << <<"Contract", "The contract definition.">>,
       <<"ContractBuilder", "Simplifies declaration of a smart contract.">>,
       <<"DispatchList", "A list of dispatchers.">>,
       <<"DispatchRetCode", "A return code indicating success or error in a compact form.">>,
       <<"Dispatcher", "Dispatcher for storage preserving messages.">>,
       <<"DispatcherMut", "Dispatcher for potentially storage mutating messages and constructors.">>,
       <<"EnvAccess", "A typed accessor to the environment.">>,
       <<"UnreachableDispatcher", "A dispatcher that shall never dispatch.">> >>

\* "trait": the entries of the category, in the order of the file.  The file
\* writes call and create of the second description between backquotes, which
\* a TLA+ string cannot hold: they stand between apostrophes here.
TraitItems ==
    << <<"Dispatch", "Types implementing this trait can handle contract calls.">>,
       <<"DispatchUsingMode", "Trait implemented by contracts themselves in order to provide a clean interface for the C-ABI specified 'call' and 'create' functions to forward calls to.">>,
       <<"Env", "Allows to directly access the environment mutably.">>,
       <<"FnInput", "Dispatchable functions that have inputs.">>,
       <<"FnOutput", "Dispatchable functions that have an output.">>,
       <<"FnSelector", "The selector of dispatchable functions.">>,
       <<"ForwardCall", "Implemented by contracts that are compiled as dependencies.">>,
       <<"ForwardCallMut", "Implemented by contracts that are compiled as dependencies.">>,
       <<"GenerateAbi", "Types implementing this trait can generate their metadata.">>,
       <<"InstantiateTestable", "Trait implemented by contracts to make them testable.">>,
       <<"Message", "Types implementing this are messages that may only read from storage.">>,
       <<"PushDispatcher", "Types able to push another dispatcher to themselves.">>,
       <<"Storage", "Types implementing this trait are storage structs.">>,
       <<"ToAccountId", "Implemented by contracts that are compiled as dependencies.">> >>

\* "type": the entries of the category, in the order of the file.
TypeItems ==
    << <<"DispatchResult", "A dispatch result.">>,
       <<"DispatchableFn", "A function with the signature able to handle storage preserving calls of messages or constructors.">>,
       <<"DispatchableFnMut", "A function with the signature able to handle potentially storage mutating calls of messages or constructors.">>,
       <<"EmptyDispatchList", "A simple type definition to view the single unreachable dispatcher as list.">> >>

(***************************************************************************)
(* Tables a faulty generator could have emitted instead.                   *)
(***************************************************************************)

\* An item emitted twice into its category.
SidebarItems_duplicateInCategory ==
    [attr |-> AttrItems, enum |-> Append(EnumItems, EnumItems[1]),
     struct |-> StructItems, trait |-> TraitItems, type |-> TypeItems]

\* An item emitted with its name missing.
SidebarItems_emptyIdentifier ==
    [attr |-> << <<"", "">> >>, enum |-> EnumItems,
     struct |-> StructItems, trait |-> TraitItems, type |-> TypeItems]

\* A category outside the five of this crate.
SidebarItems_extraKey ==
    [attr |-> AttrItems, enum |-> EnumItems, struct |-> StructItems,
     trait |-> TraitItems, type |-> TypeItems,
     fn |-> << <<"dispatch", "Dispatches a call.">> >>]

\* The last category dropped.
SidebarItems_missingKey ==
    [attr |-> AttrItems, enum |-> EnumItems, struct |-> StructItems,
     trait |-> TraitItems]

\* The structs sorted without regard to case: "Dispatcher" and
\* "DispatcherMut" come before "DispatchList".
SidebarItems_caseInsensitiveOrder ==
    [attr |-> AttrItems, enum |-> EnumItems,
     struct |-> << StructItems[1], StructItems[2], StructItems[5],
                   StructItems[6], StructItems[3], StructItems[4],
                   StructItems[7], StructItems[8] >>,
     trait |-> TraitItems, type |-> TypeItems]

\* A struct listed among the traits as well.
SidebarItems_sharedIdentifier ==
    [attr |-> AttrItems, enum |-> EnumItems, struct |-> StructItems,
     trait |-> << StructItems[1] >> \o TraitItems, type |-> TypeItems]

\* A category emitted although nothing is in it.
SidebarItems_emptyCategory ==
    [attr |-> AttrItems, enum |-> EnumItems, struct |-> StructItems,
     trait |-> TraitItems, type |-> TypeItems, macro |-> << >>]

\* The argument of the call: the whole object literal.
SidebarItems ==
    [attr |-> AttrItems, enum |-> EnumItems, struct |-> StructItems,
     trait |-> TraitItems, type |-> TypeItems]

(***************************************************************************)
(* State.                                                                  *)
(***************************************************************************)
VARIABLES
    loads,     \* how many times the file has been evaluated
    calls,     \* the calls of initSidebarItems so far: one argument list each
    defined,   \* the global names the file's evaluation has defined
    table,     \* the table the viewer holds: the argument of the last call
    item,      \* the entry the viewer read last
    found      \* the result of the viewer's last lookup by identifier

vars == <<loads, calls, defined, table, item, found>>

\* The viewer before any call: it holds no table.
NoTable == [c \in {} |-> << >>]

\* The viewer has read no entry yet.
NoItem == [category |-> "", index |-> 0, entry |-> << >>]

\* Every identifier of a table.
Identifiers(t) ==
    UNION { { t[c][i][1] : i \in 1..Len(t[c]) } : c \in DOMAIN t }

\* The (category, description) pairs an identifier resolves to.
LookupById(t, id) ==
    UNION { { <<c, t[c][i][2]>> : i \in { k \in 1..Len(t[c]) : t[c][k][1] = id } }
            : c \in DOMAIN t }

\* The name of the documented crate: a name that is no entry of the table.
CrateName == "ink_lang"

Init ==
    /\ loads = 0
    /\ calls = << >>
    /\ defined = {}
    /\ table = NoTable
    /\ item = NoItem
    /\ found = {}

\* The external initSidebarItems: the viewer keeps the table it is given.
initSidebarItems(items) ==
    /\ table' = items
    /\ item' = NoItem
    /\ found' = {}

\* A file that hands the table over category by category.
Load_inParts ==
    /\ loads < MaxLoads
    /\ loads' = loads + 1
    /\ calls' = calls \o << <<[attr |-> SidebarItems.attr]>>, <<SidebarItems>> >>
    /\ initSidebarItems(SidebarItems)
    /\ defined' = defined

\* A file that keeps the table in a global and writes to it after the call.
Load_writesAfterCall ==
    /\ loads < MaxLoads
    /\ loads' = loads + 1
    /\ calls' = Append(calls, <<SidebarItems>>)
    /\ initSidebarItems([SidebarItems EXCEPT !.attr = << >>])
    /\ defined' = defined

\* Evaluating the file: its one statement calls initSidebarItems with the
\* object literal as the only argument, and defines nothing.
Load ==
    /\ loads < MaxLoads
    /\ loads' = loads + 1
    /\ calls' = Append(calls, <<SidebarItems>>)
    /\ initSidebarItems(SidebarItems)
    /\ defined' = defined

\* The viewer reads one entry of the table it holds.
ReadEntry(c, i) ==
    /\ loads > 0
    /\ c \in DOMAIN table
    /\ i \in 1..Len(table[c])
    /\ item' = [category |-> c, index |-> i, entry |-> table[c][i]]
    /\ UNCHANGED <<loads, calls, defined, table, found>>

\* The viewer looks an identifier up in the table it holds.
Lookup(id) ==
    /\ loads > 0
    /\ found' = LookupById(table, id)
    /\ UNCHANGED <<loads, calls, defined, table, item>>

Next ==
    \/ Load
    \/ \E c \in DOMAIN table : \E i \in 1..Len(table[c]) : ReadEntry(c, i)
    \/ \E id \in Identifiers(table) \cup {CrateName} : Lookup(id)

Spec == Init /\ [][Next]_vars

(***************************************************************************)
(* The order of strings: by UTF-16 code unit, position by position, a      *)
(* proper prefix before the longer string.  Identifiers are made of        *)
(* digits, letters and the underscore.                                     *)
(***************************************************************************)
Digits == "0123456789"
Upper == "ABCDEFGHIJKLMNOPQRSTUVWXYZ"
Lower == "abcdefghijklmnopqrstuvwxyz"

\* The position of the one-character string ch in the string s, 0 if absent.
IndexIn(s, ch) ==
    IF \E i \in 1..Len(s) : SubSeq(s, i, i) = ch
    THEN CHOOSE i \in 1..Len(s) : SubSeq(s, i, i) = ch
    ELSE 0

\* The code unit of the k-th character of s.
CharCode(s, k) ==
    LET ch == SubSeq(s, k, k) IN
    IF IndexIn(Digits, ch) > 0 THEN 47 + IndexIn(Digits, ch)
    ELSE IF IndexIn(Upper, ch) > 0 THEN 64 + IndexIn(Upper, ch)
    ELSE IF ch = "_" THEN 95
    ELSE IF IndexIn(Lower, ch) > 0 THEN 96 + IndexIn(Lower, ch)
    ELSE 0

\* a comes strictly before b.
StrLess(a, b) ==
    \E k \in 1..(Len(b)) :
        /\ k <= Len(a) + 1
        /\ SubSeq(a, 1, k - 1) = SubSeq(b, 1, k - 1)
        /\ \/ k = Len(a) + 1
           \/ k <= Len(a) /\ CharCode(a, k) < CharCode(b, k)

\* The five categories of this crate's index.
Categories == {"attr", "enum", "struct", "trait", "type"}

\* e is a two-element entry of strings.
IsPair(e) ==
    /\ DOMAIN e = 1..2
    /\ e[1] \in STRING
    /\ e[2] \in STRING

(***************************************************************************)
(* Claims.                                                                 *)
(***************************************************************************)

\* C1: within every category of the table passed to initSidebarItems, no two
\* entries at different positions carry the same identifier.
UniqueWithinCategory ==
    loads > 0 =>
        \A c \in DOMAIN table : \A i, j \in 1..Len(table[c]) :
            i # j => table[c][i][1] # table[c][j][1]

\* The viewer has read an entry of a category that holds several entries.
UniqueWithinCategoryWitness ==
    /\ loads > 0
    /\ item # NoItem
    /\ Len(table[item.category]) > 1
    /\ item.entry = table[item.category][item.index]

\* C2 as stated: every entry is a sequence of exactly two elements, both of
\* them non-empty strings.
EntriesAreNonEmptyPairs ==
    loads > 0 =>
        \A c \in DOMAIN table : \A i \in 1..Len(table[c]) :
            /\ IsPair(table[c][i])
            /\ table[c][i][1] # ""
            /\ table[c][i][2] # ""

\* C2 as amended: every entry is a sequence of exactly two strings, and the
\* first of them, the identifier, is not empty; the description may be empty.
EntriesArePairsWithIdentifier ==
    loads > 0 =>
        \A c \in DOMAIN table : \A i \in 1..Len(table[c]) :
            /\ IsPair(table[c][i])
            /\ Len(table[c][i][1]) > 0

\* The viewer has read an entry whose description is empty.
EmptyDescriptionRead ==
    /\ loads > 0
    /\ item # NoItem
    /\ item.entry[1] # ""
    /\ item.entry[2] = ""

\* C3: every key of the table is one of "attr", "enum", "struct", "trait",
\* "type", and every key maps to a list of (identifier, description) pairs.
KeysAreCategories ==
    loads > 0 =>
        /\ DOMAIN table \subseteq Categories
        /\ \A c \in DOMAIN table :
            /\ DOMAIN table[c] = 1..Len(table[c])
            /\ \A i \in 1..Len(table[c]) : Len(table[c][i]) = 2

\* The table has been handed over and an entry of the category "type" read.
KeysAreCategoriesWitness ==
    /\ loads > 0
    /\ item.category = "type"
    /\ item.category \in DOMAIN table

\* C4 as stated: the domain of the table is exactly four category keys, each
\* mapped to a sequence of two-element pairs.
FourCategoryKeys ==
    loads > 0 =>
        /\ Cardinality(DOMAIN table) = 4
        /\ \A c \in DOMAIN table : \A i \in 1..Len(table[c]) :
            DOMAIN table[c][i] = 1..2

\* C4 as amended: the domain of the table is exactly the five category keys
\* "attr", "enum", "struct", "trait", "type", each mapped to a sequence of
\* two-element pairs.
FiveCategoryKeys ==
    loads > 0 =>
        /\ Cardinality(DOMAIN table) = Cardinality(Categories)
        /\ DOMAIN table = Categories
        /\ \A c \in DOMAIN table : \A i \in 1..Len(table[c]) :
            DOMAIN table[c][i] = 1..2

\* The table the viewer holds has the five keys, and the viewer has read an
\* entry of the first of them, "attr".
FiveCategoryKeysWitness ==
    /\ loads > 0
    /\ Cardinality(DOMAIN table) = Cardinality(Categories)
    /\ item.category = "attr"

\* C5: once handed over, the table is never changed: every step leaves it as
\* it is, whatever the viewer reads, and it is the table the file wrote.
TableNeverMutated ==
    [][/\ loads > 0 => table' = table
       /\ loads' > 0 => table' = SidebarItems]_vars

\* The file has been loaded a second time, the viewer has since read an entry
\* and looked an identifier up, and it still holds the table of the file.
TableNeverMutatedWitness ==
    /\ loads > 1
    /\ item # NoItem
    /\ found # {}
    /\ table = SidebarItems

\* C6: each load of the file makes exactly one call of initSidebarItems, with
\* the whole table as the only argument, and defines no global name.
OneCallPerLoad ==
    /\ Len(calls) = loads
    /\ \A k \in 1..Len(calls) : calls[k] = <<SidebarItems>>
    /\ defined = {}

\* The file has been loaded twice: two calls are on record.
OneCallPerLoadWitness ==
    /\ loads = 2
    /\ Len(calls) = 2

\* C7: within every category the identifiers are in strictly ascending
\* case-sensitive code-unit order: identifier(i) < identifier(i+1) for every
\* pair of adjacent positions.
IdentifiersAscending ==
    loads > 0 =>
        \A c \in DOMAIN table : \A i \in 1..(Len(table[c]) - 1) :
            StrLess(table[c][i][1], table[c][i + 1][1])

\* The viewer has read "Dispatcher", which follows "DispatchRetCode": the
\* uppercase letter sorts before the lowercase one.
IdentifiersAscendingWitness ==
    /\ loads > 0
    /\ item.index > 1
    /\ item.entry[1] = "Dispatcher"
    /\ table[item.category][item.index - 1][1] = "DispatchRetCode"

\* C8: no identifier appears in the lists of two different categories, so a
\* lookup by identifier alone resolves to at most one (category,
\* description) pair.
UniqueAcrossCategories ==
    /\ loads > 0 =>
        \A c, d \in DOMAIN table :
            \A i \in 1..Len(table[c]) : \A j \in 1..Len(table[d]) :
                c # d => table[c][i][1] # table[d][j][1]
    /\ Cardinality(found) <= 1

\* A lookup has resolved an identifier to one pair.
UniqueAcrossCategoriesWitness ==
    /\ loads > 0
    /\ Cardinality(found) = 1

\* C9: every category key of the table maps to a list that is not empty.
NoEmptyCategory ==
    loads > 0 => \A c \in DOMAIN table : Len(table[c]) > 0

\* The viewer has read the only entry of the shortest category.
NoEmptyCategoryWitness ==
    /\ loads > 0
    /\ item # NoItem
    /\ item.index = Len(table[item.category])
    /\ Len(table[item.category]) = 1

====
